---- MODULE Spec2Model ----
(***************************************************************************)
(* A model of warcpp, the single-header WARC record parser                 *)
(* (include/warcpp/warcpp.hpp).  A stream is a sequence of characters with *)
(* the read position and the eofbit/failbit of a std::istream; the parser  *)
(* is modelled character by character: std::getline, istream::read and     *)
(* istream::ignore, then split, trim, read_fields, read_version,           *)
(* Record::content_length, read_record and read_subsequent_record.         *)
(*                                                                         *)
(* A character is a one-character string; VT and NUL, which TLA+ cannot    *)
(* write as string escapes, are named tokens.                              *)
(***************************************************************************)
EXTENDS Integers, Sequences, FiniteSets, TLC

VARIABLES
    data,       \* the bytes of the stream (the istringstream's buffer)
    segs,       \* how data was put together: the segments it is the concatenation of
    in,         \* the istream: [pos, eof, fail]; pos = number of bytes consumed
    calls,      \* one entry per call made on the stream so far, in order
    version,    \* the caller's version string handed to detail::read_version
    os,         \* what the command-line driver has written to its output
    clog,       \* the Errors the driver has logged, in order
    pc          \* where the driver is: "read", "done", "terminated", "hung";
                \* "lib" when the parser is called by another caller

vars == <<data, segs, in, calls, version, os, clog, pc>>

-----------------------------------------------------------------------------
(* Characters *)

LF == "\n"
CR == "\r"
SP == " "
TAB == "\t"
FF == "\f"
VT == "\\v"
NUL == "\\0"

\* std::isspace in the "C" locale
isspace(c) == c \in {SP, TAB, LF, VT, FF, CR}

Upper == <<"A","B","C","D","E","F","G","H","I","J","K","L","M",
           "N","O","P","Q","R","S","T","U","V","W","X","Y","Z">>
Lower == <<"a","b","c","d","e","f","g","h","i","j","k","l","m",
           "n","o","p","q","r","s","t","u","v","w","x","y","z">>
Digits == <<"0","1","2","3","4","5","6","7","8","9">>

\* std::tolower in the "C" locale
tolower(c) ==
    IF \E i \in 1..Len(Upper) : Upper[i] = c
    THEN Lower[CHOOSE i \in 1..Len(Upper) : Upper[i] = c]
    ELSE c

\* A faulty transform: the name is stored in the case it was written in.
keep_case(s) == s

\* std::transform(name.begin(), name.end(), name.begin(), tolower)
transform_tolower(s) == [i \in 1..Len(s) |-> tolower(s[i])]

isdigit(c) == \E i \in 1..Len(Digits) : Digits[i] = c
DigitVal(c) == (CHOOSE i \in 1..Len(Digits) : Digits[i] = c) - 1

\* std::numeric_limits<int>::max(), the range std::stoi accepts
INT_MAX == 2147483647

-----------------------------------------------------------------------------
(* Sequence helpers: std::find / std::find_if / std::find_if_not return    *)
(* the index of the first match at or after i, or Len(s) + 1 (end()).      *)

RECURSIVE find(_, _, _)
find(s, c, i) ==
    IF i > Len(s) THEN Len(s) + 1
    ELSE IF s[i] = c THEN i ELSE find(s, c, i + 1)

RECURSIVE find_if_space(_, _)
find_if_space(s, i) ==
    IF i > Len(s) THEN Len(s) + 1
    ELSE IF isspace(s[i]) THEN i ELSE find_if_space(s, i + 1)

RECURSIVE find_if_not_space(_, _)
find_if_not_space(s, i) ==
    IF i > Len(s) THEN Len(s) + 1
    ELSE IF ~isspace(s[i]) THEN i ELSE find_if_not_space(s, i + 1)

-----------------------------------------------------------------------------
(* The std::istream operations the parser uses.  d is the stream's data,   *)
(* s its state [pos, eof, fail].                                           *)

good(s) == ~s.eof /\ ~s.fail

\* std::getline(in, line): with the stream not good the sentry fails, failbit
\* is set and line is left as it was; otherwise line is erased and filled up to
\* the next '\n' (extracted, not stored) or the end of the data (eofbit);
\* failbit when nothing at all was extracted.
getline(d, s, line) ==
    IF ~good(s) THEN [in |-> [s EXCEPT !.fail = TRUE], line |-> line]
    ELSE LET nl == find(d, LF, s.pos + 1) IN
         IF nl > Len(d)
         THEN [in |-> [pos |-> Len(d), eof |-> TRUE, fail |-> (s.pos = Len(d))],
               line |-> SubSeq(d, s.pos + 1, Len(d))]
         ELSE [in |-> [s EXCEPT !.pos = nl],
               line |-> SubSeq(d, s.pos + 1, nl - 1)]

\* A faulty read: the bytes are taken up to the first white space among them.
read_formatted(d, s, n) ==
    IF ~good(s) THEN [in |-> [s EXCEPT !.fail = TRUE], got |-> <<>>]
    ELSE IF Len(d) - s.pos >= n
         THEN LET got == SubSeq(d, s.pos + 1, s.pos + n) IN
              [in |-> [s EXCEPT !.pos = s.pos + n],
               got |-> SubSeq(got, 1, find_if_space(got, 1) - 1)]
         ELSE [in |-> [pos |-> Len(d), eof |-> TRUE, fail |-> TRUE],
               got |-> SubSeq(d, s.pos + 1, Len(d))]

\* A faulty read: the body taken as one line (std::getline) instead of n bytes.
read_line(d, s, n) ==
    LET g == getline(d, s, <<>>) IN [in |-> g.in, got |-> g.line]

\* in.read(buf, n): n bytes, or what is left with eofbit and failbit set.
read(d, s, n) ==
    IF ~good(s) THEN [in |-> [s EXCEPT !.fail = TRUE], got |-> <<>>]
    ELSE IF Len(d) - s.pos >= n
         THEN [in |-> [s EXCEPT !.pos = s.pos + n],
               got |-> SubSeq(d, s.pos + 1, s.pos + n)]
         ELSE [in |-> [pos |-> Len(d), eof |-> TRUE, fail |-> TRUE],
               got |-> SubSeq(d, s.pos + 1, Len(d))]

\* A faulty ignore: in.ignore(2), two characters as if every line end were CR LF.
ignore_two_chars(d, s) ==
    IF ~good(s) THEN [s EXCEPT !.fail = TRUE]
    ELSE IF Len(d) - s.pos >= 2 THEN [s EXCEPT !.pos = s.pos + 2]
    ELSE [pos |-> Len(d), eof |-> TRUE, fail |-> s.fail]

\* A faulty ignore: in.ignore(max) without the delimiter discards to the end.
ignore_to_end(d, s) ==
    IF ~good(s) THEN [s EXCEPT !.fail = TRUE]
    ELSE [pos |-> Len(d), eof |-> TRUE, fail |-> s.fail]

\* A faulty ignore: only a line end that follows at once is discarded (LF, or
\* CR LF); anything else is left unread.
ignore_line_end(d, s) ==
    IF ~good(s) THEN [s EXCEPT !.fail = TRUE]
    ELSE IF s.pos = Len(d) THEN [pos |-> Len(d), eof |-> TRUE, fail |-> s.fail]
    ELSE IF d[s.pos + 1] = LF THEN [s EXCEPT !.pos = s.pos + 1]
    ELSE IF s.pos + 2 <= Len(d) /\ d[s.pos + 1] = CR /\ d[s.pos + 2] = LF
         THEN [s EXCEPT !.pos = s.pos + 2]
    ELSE s

\* in.ignore(numeric_limits<streamsize>::max(), '\n'): discard up to and
\* including the next '\n', or to the end of the data (eofbit).
ignore(d, s) ==
    IF ~good(s) THEN [s EXCEPT !.fail = TRUE]
    ELSE LET nl == find(d, LF, s.pos + 1) IN
         IF nl > Len(d)
         THEN [pos |-> Len(d), eof |-> TRUE, fail |-> s.fail]
         ELSE [s EXCEPT !.pos = nl]

-----------------------------------------------------------------------------
(* detail::split and detail::trim *)

\* split(str, delim): the text before the first delim and the text after it
\* (empty when there is no delim).
split(str, delim) ==
    LET split_pos == find(str, delim, 1)
        second_begin == IF split_pos /= Len(str) + 1 THEN split_pos + 1 ELSE split_pos
    IN <<SubSeq(str, 1, split_pos - 1), SubSeq(str, second_begin, Len(str))>>

\* trim(str): from the first non-space character up to the first space
\* character found after it.
trim(str) ==
    LET begin == find_if_not_space(str, 1)
        end == find_if_space(str, begin)
    IN SubSeq(str, begin, end - 1)

-----------------------------------------------------------------------------
(* Values of the result types *)

\* The Error alternatives and Result = variant<Record, Error>.  A call that
\* leaves by a C++ exception, or that never returns, has no Result: Threw and
\* Diverges stand for those two outcomes.
Invalid_Version(line) == [kind |-> "Invalid_Version", version |-> line]
Invalid_Field(line) == [kind |-> "Invalid_Field", field |-> line]
Missing_Mandatory_Fields == [kind |-> "Missing_Mandatory_Fields"]
Incomplete_Record == [kind |-> "Incomplete_Record"]
RecordOf(v, f, c) == [kind |-> "Record", version |-> v, fields |-> f, content |-> c]
Threw(what) == [kind |-> "Exception", what |-> what]
Diverges == [kind |-> "Diverges"]

ErrorKinds ==
    {"Invalid_Version", "Invalid_Field", "Missing_Mandatory_Fields", "Incomplete_Record"}

\* A faulty record: one object kept from call to call, which still holds the
\* fields the call before left in it.
KeptFields == IF calls = <<>> THEN [k \in {} |-> <<>>] ELSE calls[Len(calls)].out.fields

\* Field_Map: an unordered_map from string to string
EmptyFields == [k \in {} |-> <<>>]
\* A faulty store: fields.emplace(name, value), which keeps an entry already there.
Emplace(fields, name, value) ==
    [k \in (DOMAIN fields) \cup {name} |-> IF k \in DOMAIN fields THEN fields[k] ELSE value]

\* fields[name] = value
Put(fields, name, value) ==
    [k \in (DOMAIN fields) \cup {name} |-> IF k = name THEN value ELSE fields[k]]

Warc_Type == <<"w","a","r","c","-","t","y","p","e">>
Warc_Target_Uri == <<"w","a","r","c","-","t","a","r","g","e","t","-","u","r","i">>
Warc_Trec_Id == <<"w","a","r","c","-","t","r","e","c","-","i","d">>
Content_Length == <<"c","o","n","t","e","n","t","-","l","e","n","g","t","h">>
Response == <<"r","e","s","p","o","n","s","e">>

-----------------------------------------------------------------------------
(* detail::read_fields *)

\* The loop of read_fields, entered with the line just read.  The return value
\* of the std::getline at the end of the body is not looked at: once the stream
\* is no longer good that getline leaves line as it is, and the loop runs again
\* on the same line with the same stream and the same map, without end.
RECURSIVE read_fields_loop(_, _, _, _)
read_fields_loop(d, s, line, fields) ==
    IF ~(line /= <<>> /\ line /= <<CR>>)
    THEN [error |-> FALSE, hang |-> FALSE, in |-> s, fields |-> fields]
    ELSE LET sp == split(line, ":")
             name == sp[1]
             value == sp[2]
         IN IF name = <<>> \/ value = <<>>
            THEN [error |-> TRUE, hang |-> FALSE, field |-> line, in |-> s,
                  fields |-> fields]
            ELSE LET stored == Put(fields, transform_tolower(trim(name)), trim(value))
                     g == getline(d, s, line)
                 IN IF g.in = s /\ g.line = line /\ stored = fields
                    THEN [error |-> FALSE, hang |-> TRUE, in |-> s, fields |-> stored]
                    ELSE read_fields_loop(d, g.in, g.line, stored)

\* A faulty read_fields: the header block is parsed a second time.
read_fields_twice(d, s, fields) ==
    LET g == getline(d, s, <<>>)
        f == read_fields_loop(d, g.in, g.line, fields)
        g2 == getline(d, f.in, <<>>)
    IN IF f.hang \/ f.error THEN f ELSE read_fields_loop(d, g2.in, g2.line, f.fields)

\* A faulty read_fields: a line that cannot be parsed is passed over.
RECURSIVE read_fields_skip_loop(_, _, _, _)
read_fields_skip_loop(d, s, line, fields) ==
    IF ~(line /= <<>> /\ line /= <<CR>>)
    THEN [error |-> FALSE, hang |-> FALSE, in |-> s, fields |-> fields]
    ELSE LET sp == split(line, ":")
             stored == IF sp[1] = <<>> \/ sp[2] = <<>> THEN fields
                       ELSE Put(fields, transform_tolower(trim(sp[1])), trim(sp[2]))
             g == getline(d, s, line)
         IN IF g.in = s /\ g.line = line /\ stored = fields
            THEN [error |-> FALSE, hang |-> TRUE, in |-> s, fields |-> stored]
            ELSE read_fields_skip_loop(d, g.in, g.line, stored)
read_fields_skip_bad(d, s, fields) ==
    LET g == getline(d, s, <<>>)
    IN read_fields_skip_loop(d, g.in, g.line, fields)

\* A faulty read_fields: the line after the blank line is taken as well.
read_fields_past_blank(d, s, fields) ==
    LET g == getline(d, s, <<>>)
        f == read_fields_loop(d, g.in, g.line, fields)
    IN IF f.hang \/ f.error THEN f ELSE [f EXCEPT !.in = ignore(d, f.in)]

read_fields(d, s, fields) ==
    LET g == getline(d, s, <<>>)
    IN read_fields_loop(d, g.in, g.line, fields)

-----------------------------------------------------------------------------
(* detail::read_version *)

\* std::string_view prefix = "WARC/"
prefix == <<"W","A","R","C","/">>

\* A faulty read_version: the error carries the trimmed line, not the raw one.
read_version_trimmed_payload(d, s, ver) ==
    LET g == getline(d, s, <<>>)
        trimmed == trim(g.line)
    IN IF g.in.fail
       THEN [error |-> TRUE, payload |-> g.line, in |-> g.in, version |-> ver]
       ELSE IF Len(trimmed) < 6 \/ SubSeq(trimmed, 1, Len(prefix)) /= prefix
            THEN [error |-> TRUE, payload |-> trimmed, in |-> g.in, version |-> ver]
            ELSE [error |-> FALSE, payload |-> <<>>, in |-> g.in,
                  version |-> SubSeq(trimmed, Len(prefix) + 1, Len(trimmed))]

\* A faulty read_version: version is assigned before the line is checked.
read_version_assign_first(d, s, ver) ==
    LET g == getline(d, s, <<>>)
        trimmed == trim(g.line)
        assigned == SubSeq(trimmed, Len(prefix) + 1, Len(trimmed))
    IN IF g.in.fail
       THEN [error |-> TRUE, payload |-> g.line, in |-> g.in, version |-> ver]
       ELSE IF Len(trimmed) < 6 \/ SubSeq(trimmed, 1, Len(prefix)) /= prefix
            THEN [error |-> TRUE, payload |-> g.line, in |-> g.in, version |-> assigned]
            ELSE [error |-> FALSE, payload |-> <<>>, in |-> g.in, version |-> assigned]

read_version(d, s, ver) ==
    LET g == getline(d, s, <<>>)
        trimmed == trim(g.line)
    IN IF g.in.fail
       THEN [error |-> TRUE, payload |-> g.line, in |-> g.in, version |-> ver]
       ELSE IF Len(trimmed) < 6 \/ SubSeq(trimmed, 1, Len(prefix)) /= prefix
            THEN [error |-> TRUE, payload |-> g.line, in |-> g.in, version |-> ver]
            ELSE [error |-> FALSE, payload |-> <<>>, in |-> g.in,
                  version |-> SubSeq(trimmed, Len(prefix) + 1, Len(trimmed))]

-----------------------------------------------------------------------------
(* class Record *)

has(fields, field) == field \in DOMAIN fields

\* A faulty valid(): the type field is not asked for.
valid_length_only(fields) == has(fields, Content_Length)

valid(fields) == has(fields, Warc_Type) /\ has(fields, Content_Length)

\* fields_.at(name): the value, or std::out_of_range when there is no such key
at(fields, name) ==
    IF has(fields, name) THEN [exc |-> "none", val |-> fields[name]]
    ELSE [exc |-> "out_of_range", val |-> <<>>]

\* Record::type(), Record::url(), Record::trecid()
type(fields) == at(fields, Warc_Type)
url(fields) == at(fields, Warc_Target_Uri)
trecid(fields) == at(fields, Warc_Trec_Id)

\* A faulty field(): fields_[name], which yields an empty string for a key
\* that is not there.
field_or_empty(fields, name) ==
    [found |-> TRUE, value |-> IF has(fields, name) THEN fields[name] ELSE <<>>]

\* Record::field(name): std::optional; found = FALSE is std::nullopt
field(fields, name) ==
    IF has(fields, name) THEN [found |-> TRUE, value |-> fields[name]]
    ELSE [found |-> FALSE, value |-> <<>>]

\* A faulty valid_response(): the type is not compared with "response".
valid_response_any_type(fields) ==
    /\ valid(fields)
    /\ has(fields, Warc_Target_Uri)
    /\ has(fields, Warc_Trec_Id)

valid_response(fields) ==
    /\ valid(fields)
    /\ has(fields, Warc_Target_Uri)
    /\ type(fields).val = Response
    /\ has(fields, Warc_Trec_Id)

\* The digits of std::stoi, read left to right.  big = 0: the magnitude is acc,
\* at most INT_MAX; big = 1: it is INT_MAX + 1; big = 2: it is larger.
RECURSIVE stoi_digits(_, _, _, _)
stoi_digits(str, i, acc, big) ==
    IF i > Len(str) \/ ~isdigit(str[i]) THEN [acc |-> acc, big |-> big]
    ELSE LET dv == DigitVal(str[i])
             lim == INT_MAX \div 10
         IN IF big /= 0 THEN stoi_digits(str, i + 1, acc, 2)
            ELSE IF acc < lim \/ (acc = lim /\ dv <= INT_MAX % 10)
                 THEN stoi_digits(str, i + 1, acc * 10 + dv, 0)
                 ELSE IF acc = lim /\ dv = (INT_MAX % 10) + 1
                      THEN stoi_digits(str, i + 1, acc, 1)
                      ELSE stoi_digits(str, i + 1, acc, 2)

\* A faulty conversion: the digits are accumulated in a 32-bit integer without
\* a range check, so that the value is taken modulo 2^32 (hi and lo are its two
\* 16-bit halves).
RECURSIVE wrap_digits(_, _, _, _)
wrap_digits(str, i, hi, lo) ==
    IF i > Len(str) \/ ~isdigit(str[i])
    THEN IF hi >= 32768 THEN (hi - 65536) * 65536 + lo ELSE hi * 65536 + lo
    ELSE LET l == lo * 10 + DigitVal(str[i]) IN
         wrap_digits(str, i + 1, (hi * 10 + (l \div 65536)) % 65536, l % 65536)
stoi_wrapping(str) ==
    LET b == find_if_not_space(str, 1)
        neg == b <= Len(str) /\ str[b] = "-"
        signed == b <= Len(str) /\ str[b] \in {"-", "+"}
        first == IF signed THEN b + 1 ELSE b
        r == wrap_digits(str, first, 0, 0)
    IN IF first > Len(str) \/ ~isdigit(str[first])
       THEN [exc |-> "invalid_argument", val |-> 0]
       ELSE [exc |-> "none", val |-> IF neg /\ r /= (0 - INT_MAX) - 1 THEN 0 - r ELSE r]

\* std::stoi(str): leading white space, an optional sign, then decimal digits;
\* what follows the digits is ignored.  invalid_argument when there is no
\* digit, out_of_range when the value is not an int.
stoi(str) ==
    LET b == find_if_not_space(str, 1)
        neg == b <= Len(str) /\ str[b] = "-"
        signed == b <= Len(str) /\ str[b] \in {"-", "+"}
        first == IF signed THEN b + 1 ELSE b
        r == stoi_digits(str, first, 0, 0)
    IN IF first > Len(str) \/ ~isdigit(str[first])
       THEN [exc |-> "invalid_argument", val |-> 0]
       ELSE IF r.big = 0 THEN [exc |-> "none", val |-> IF neg THEN 0 - r.acc ELSE r.acc]
       ELSE IF r.big = 1 /\ neg THEN [exc |-> "none", val |-> (0 - INT_MAX) - 1]
       ELSE [exc |-> "out_of_range", val |-> 0]

\* Record::content_length(): std::stoi of the content-length field; an
\* invalid_argument is caught and thrown again as a runtime_error, an
\* out_of_range is not caught.  val is the int that is then converted to
\* std::size_t: a negative val stands for 2^64 + val.
content_length(fields) ==
    LET r == stoi(fields[Content_Length])
    IN IF r.exc = "invalid_argument" THEN [exc |-> "runtime_error", val |-> 0]
       ELSE r

\* A faulty resize: content_.reserve(length), which leaves the size at 0.
reserved(got, length) == <<>>

\* content_.resize(length): length NUL bytes; in.read then writes the bytes it
\* got over the first of them.
resized(got, length) == got \o [i \in 1..(length - Len(got)) |-> NUL]

-----------------------------------------------------------------------------
(* read_record and read_subsequent_record *)

\* What a call hands back: the Result (or Threw / Diverges), the stream state it
\* leaves, the fields the local record held when the call ended, and the
\* positions at which the phases ended (-1: phase not reached): vstart, where
\* the accepted version line starts; hend, after read_fields; bend, after the
\* body bytes.  tries is the number of read_version calls the call made.
Outcome(res, s, fields, vstart, hend, bend) ==
    [res |-> res, in |-> s, fields |-> fields, vstart |-> vstart, hend |-> hend,
     bend |-> bend, tries |-> 1]

read_record(d, s) ==
    LET v == read_version(d, s, <<>>) IN
    IF v.error THEN Outcome(Invalid_Version(v.payload), v.in, EmptyFields, -1, -1, -1)
    ELSE
    LET f == read_fields(d, v.in, EmptyFields) IN
    IF f.hang THEN Outcome(Diverges, f.in, f.fields, s.pos, -1, -1)
    ELSE IF f.error THEN Outcome(Invalid_Field(f.field), f.in, f.fields, s.pos, -1, -1)
    ELSE IF ~valid(f.fields)
         THEN Outcome(Missing_Mandatory_Fields, f.in, f.fields, s.pos, f.in.pos, -1)
    ELSE
    LET cl == content_length(f.fields) IN
    IF cl.exc /= "none" THEN Outcome(Threw(cl.exc), f.in, f.fields, s.pos, f.in.pos, -1)
    ELSE IF cl.val < 0 THEN Outcome(Threw("length_error"), f.in, f.fields, s.pos, f.in.pos, -1)
    ELSE
    LET length == cl.val
        r == IF length > 0 THEN read(d, f.in, length) ELSE [in |-> f.in, got |-> <<>>]
        content == IF length > 0 THEN resized(r.got, length) ELSE <<>>
    IN
    IF length > 0 /\ r.in.fail
    THEN Outcome(Incomplete_Record, r.in, f.fields, s.pos, f.in.pos, -1)
    ELSE Outcome(RecordOf(v.version, f.fields, content),
                 ignore(d, ignore(d, r.in)), f.fields, s.pos, f.in.pos, r.in.pos)

\* A faulty loop: one attempt only, as in read_record.
version_loop_once(d, s, ver) ==
    LET v == read_version(d, s, ver) IN
    IF ~v.error THEN [found |-> TRUE, hang |-> FALSE, in |-> v.in, version |-> v.version,
                      vstart |-> s.pos, tries |-> 1]
    ELSE [found |-> FALSE, hang |-> FALSE, in |-> v.in, version |-> ver, vstart |-> -1, tries |-> 1]

\* A faulty loop: in.eof() is looked at before the result of read_version.
RECURSIVE version_loop_eof_first(_, _, _)
version_loop_eof_first(d, s, ver) ==
    LET v == read_version(d, s, ver) IN
    IF v.in.eof THEN [found |-> FALSE, hang |-> FALSE, in |-> v.in, version |-> ver,
                      vstart |-> -1, tries |-> 1]
    ELSE IF ~v.error THEN [found |-> TRUE, hang |-> FALSE, in |-> v.in,
                           version |-> v.version, vstart |-> s.pos, tries |-> 1]
    ELSE IF v.in = s THEN [found |-> FALSE, hang |-> TRUE, in |-> v.in, version |-> ver,
                           vstart |-> -1, tries |-> 1]
    ELSE [version_loop_eof_first(d, v.in, v.version) EXCEPT !.tries = @ + 1]

\* A faulty loop: after a rejected line the line that follows is discarded too.
RECURSIVE version_loop_skips_pair(_, _, _)
version_loop_skips_pair(d, s, ver) ==
    LET v == read_version(d, s, ver) IN
    IF ~v.error THEN [found |-> TRUE, hang |-> FALSE, in |-> v.in, version |-> v.version,
                      vstart |-> s.pos, tries |-> 1]
    ELSE IF v.in.eof THEN [found |-> FALSE, hang |-> FALSE, in |-> v.in, version |-> ver,
                           vstart |-> -1, tries |-> 1]
    ELSE IF v.in = s THEN [found |-> FALSE, hang |-> TRUE, in |-> v.in, version |-> ver,
                           vstart |-> -1, tries |-> 1]
    ELSE [version_loop_skips_pair(d, ignore(d, v.in), v.version) EXCEPT !.tries = @ + 1]

\* while (error = detail::read_version(in, record.version_)) { if (in.eof()) return ... }
\* tries is the number of read_version calls made.
\* A failed read_version that leaves the stream as it found it, with eofbit
\* clear, is followed by the same failure again: the loop does not end.
RECURSIVE version_loop(_, _, _)
version_loop(d, s, ver) ==
    LET v == read_version(d, s, ver) IN
    IF ~v.error THEN [found |-> TRUE, hang |-> FALSE, in |-> v.in, version |-> v.version,
                      vstart |-> s.pos, tries |-> 1]
    ELSE IF v.in.eof THEN [found |-> FALSE, hang |-> FALSE, in |-> v.in, version |-> ver,
                           vstart |-> -1, tries |-> 1]
    ELSE IF v.in = s THEN [found |-> FALSE, hang |-> TRUE, in |-> v.in, version |-> ver,
                           vstart |-> -1, tries |-> 1]
    ELSE [version_loop(d, v.in, v.version) EXCEPT !.tries = @ + 1]

read_subsequent_record(d, s) ==
    LET v == version_loop(d, s, <<>>) IN
    [(
    IF v.hang THEN Outcome(Diverges, v.in, EmptyFields, -1, -1, -1)
    ELSE IF ~v.found THEN Outcome(Invalid_Version(<<>>), v.in, EmptyFields, -1, -1, -1)
    ELSE
    LET f == read_fields(d, v.in, EmptyFields) IN
    IF f.hang THEN Outcome(Diverges, f.in, f.fields, v.vstart, -1, -1)
    ELSE IF f.error THEN Outcome(Invalid_Field(f.field), f.in, f.fields, v.vstart, -1, -1)
    ELSE IF ~valid(f.fields)
         THEN Outcome(Missing_Mandatory_Fields, f.in, f.fields, v.vstart, f.in.pos, -1)
    ELSE
    LET cl == content_length(f.fields) IN
    IF cl.exc /= "none" THEN Outcome(Threw(cl.exc), f.in, f.fields, v.vstart, f.in.pos, -1)
    ELSE IF cl.val < 0 THEN Outcome(Threw("length_error"), f.in, f.fields, v.vstart, f.in.pos, -1)
    ELSE
    LET length == cl.val
        r == IF length > 0 THEN read(d, f.in, length) ELSE [in |-> f.in, got |-> <<>>]
        content == IF length > 0 THEN resized(r.got, length) ELSE <<>>
    IN
    IF length > 0 /\ r.in.fail
    THEN Outcome(Incomplete_Record, r.in, f.fields, v.vstart, f.in.pos, -1)
    ELSE Outcome(RecordOf(v.version, f.fields, content),
                 ignore(d, ignore(d, r.in)), f.fields, v.vstart, f.in.pos, r.in.pos)
    ) EXCEPT !.tries = v.tries]

-----------------------------------------------------------------------------
(* The streams.  A stream is the concatenation of at most MaxSegs segments; *)
(* a segment is [kind, text, body]:                                         *)
(*   "wf"      a well-formed record in the wire format: version line,       *)
(*             header with warc-type and content-length = Len(body), blank  *)
(*             line, body, line end, blank line;                            *)
(*   "nomand"  a record in the same format whose header lacks a mandatory   *)
(*             field;                                                       *)
(*   "junk"    complete lines none of which read_version accepts;           *)
(*   "raw"     anything else (records corrupted in other ways, text cut     *)
(*             off by the end of the stream).                               *)

MaxSegs == 2
MaxCalls == 3

RECURSIVE Decimal(_)
Decimal(n) == IF n < 10 THEN <<Digits[n + 1]>> ELSE Decimal(n \div 10) \o <<Digits[(n % 10) + 1]>>

RECURSIVE Flatten(_)
Flatten(ss) == IF ss = <<>> THEN <<>> ELSE Head(ss) \o Flatten(Tail(ss))

Eols == {<<LF>>, <<CR, LF>>}

\* WARC/<version><eol> <name>: <value><eol> ... <eol> <body> <eol><eol>
WireRecord(vline, header, eol, body) ==
    vline \o eol \o Flatten([i \in 1..Len(header) |-> header[i] \o eol]) \o eol
          \o body \o eol \o eol

V1 == <<"W","A","R","C","/","1">>
V018 == <<"W","A","R","C","/","0",".","1","8">>
TypeLine == <<"w","a","r","c","-","t","y","p","e",":","r">>
LengthLine(value) == <<"c","o","n","t","e","n","t","-","l","e","n","g","t","h",":">> \o value
AB == <<"a","b">>
VersionInBody == <<"x",LF,"W","A","R","C","/","2",LF>>

Bodies == {<<>>, AB, VersionInBody}

PlainHeader(n) == <<TypeLine, LengthLine(Decimal(n))>>
FancyHeader(n) ==
    << <<"W","A","R","C","-","T","y","p","e",":",SP,"r","e","s","p","o","n","s","e">>,
       <<"k",":",SP,"a",SP,"b">>,
       <<"C","o","n","t","e","n","t","-","L","e","n","g","t","h",":",SP>> \o Decimal(n) \o <<SP, SP>> >>

\* A header that names one field three times, in different spellings
DupHeader(n) ==
    << <<"K",":","1">>, TypeLine, <<"k",SP,":",SP,"2">>, LengthLine(Decimal(n)),
       <<SP,"k",":","3",SP>> >>
\* The header of a response record; lower = FALSE: the names in mixed case
ResponseHeader(n, lower) ==
    IF lower
    THEN << <<"w","a","r","c","-","t","y","p","e",":","r","e","s","p","o","n","s","e">>,
            <<"w","a","r","c","-","t","a","r","g","e","t","-","u","r","i",":","u">>,
            <<"w","a","r","c","-","t","r","e","c","-","i","d",":","t">>,
            LengthLine(Decimal(n)) >>
    ELSE << <<"W","A","R","C","-","T","y","p","e",":","r","e","s","p","o","n","s","e">>,
            <<"W","A","R","C","-","T","a","r","g","e","t","-","U","R","I",":","u">>,
            <<"w","a","r","c","-","T","R","E","C","-","i","D",":","t">>,
            <<"C","O","N","T","E","N","T","-","l","e","n","g","t","h",":">> \o Decimal(n) >>

\* A header with the fields of a response record and another type
OtherTypeHeader(n) ==
    << TypeLine,
       <<"w","a","r","c","-","t","a","r","g","e","t","-","u","r","i",":","u">>,
       <<"w","a","r","c","-","t","r","e","c","-","i","d",":","t">>,
       LengthLine(Decimal(n)) >>

Seg(kind, text, body) == [kind |-> kind, text |-> text, body |-> body]

WellFormed ==
    { Seg("wf", WireRecord(V1, PlainHeader(Len(b)), e, b), b) : e \in Eols, b \in Bodies }
    \cup
    { Seg("wf", WireRecord(V018, FancyHeader(Len(b)), e, b), b) : e \in Eols, b \in Bodies }
    \cup
    { Seg("wf", WireRecord(V1, h, <<LF>>, AB), AB)
        : h \in {DupHeader(Len(AB)), ResponseHeader(Len(AB), TRUE),
                 ResponseHeader(Len(AB), FALSE), OtherTypeHeader(Len(AB))} }

ResponseRecords ==
    { Seg("wf", WireRecord(V1, ResponseHeader(Len(VersionInBody), TRUE), <<LF>>, VersionInBody),
          VersionInBody) }

NoMandatory ==
    { Seg("nomand", WireRecord(V1, <<h>>, <<LF>>, b), b)
        : h \in {TypeLine, <<"C","o","n","t","e","n","t","-","L","e","n","g","t","h",":",SP,"2">>},
          b \in {AB, <<"W","A","R","C","/","2",LF>>, <<"k",":","9",LF>>} }

Junk ==
    { Seg("junk", x, <<>>)
        : x \in { <<"j","u","n","k",LF>>, <<LF>>, <<CR, LF>>,
                  <<"W","A","R","C","/",LF>>,
                  <<"W","A","R","C","/",SP,"x",LF>>,
                  <<"w","a","r","c","/","1",LF>> } }

Raw ==
    { Seg("raw", x, <<>>)
        : x \in { WireRecord(V1, <<TypeLine, LengthLine(<<"x">>)>>, <<LF>>, AB),
                  WireRecord(V1, <<TypeLine, LengthLine(<<"-","1">>)>>, <<LF>>, AB),
                  WireRecord(V1, <<TypeLine, LengthLine(<<"9","9","9","9","9","9","9","9","9","9">>)>>, <<LF>>, AB),
                  WireRecord(V1, <<TypeLine, LengthLine(<<"4","2","9","4","9","6","7","2","9","8">>)>>, <<LF>>, AB),
                  WireRecord(V1, <<TypeLine, LengthLine(<<"2","x">>)>>, <<LF>>, AB),
                  WireRecord(V1, <<TypeLine, LengthLine(<<"5">>)>>, <<LF>>, AB),
                  WireRecord(V1, <<TypeLine, LengthLine(<<"1">>)>>, <<LF>>, <<"a","b","c">>),
                  WireRecord(<<SP,"W","A","R","C","/","1",SP,"y">>, <<TypeLine, LengthLine(<<"0">>)>>, <<LF>>, <<>>),
                  WireRecord(V1, <<TypeLine, <<"n","o","c","o","l","o","n">>>>, <<LF>>, <<>>),
                  WireRecord(V1, << <<"n","o","v","a","l","u","e",":">> >>, <<LF>>, <<>>),
                  WireRecord(V1, << <<":","n","o","n","a","m","e">> >>, <<LF>>, <<>>),
                  WireRecord(V1, << <<SP,":",SP,"v">>, TypeLine, LengthLine(<<"0">>)>>, <<LF>>, <<>>),
                  V1 \o <<LF>> \o TypeLine \o <<LF>> \o LengthLine(<<"2">>) \o <<LF, LF>> \o AB \o <<LF>>,
                  V1 \o <<LF>> \o TypeLine \o <<LF>> \o LengthLine(<<"2">>) \o <<LF, LF>> \o AB,
                  V1 \o <<LF>> \o TypeLine \o <<LF>> \o LengthLine(<<"2">>) \o <<LF>>,
                  V1 \o <<LF>> \o TypeLine \o <<LF>> \o LengthLine(<<"0">>) \o <<LF>>,
                  V1 \o <<LF>> \o TypeLine,
                  V1,
                  <<"j","u","n","k">> } }

Segments == WellFormed \cup ResponseRecords \cup NoMandatory \cup Junk \cup Raw

SegLists == UNION { [1..n -> Segments] : n \in 0..MaxSegs }

Text(ss) == Flatten([i \in 1..Len(ss) |-> ss[i].text])

-----------------------------------------------------------------------------
(* The state machine: a caller holding one stream and calling the parser.  *)

Fresh == [pos |-> 0, eof |-> FALSE, fail |-> FALSE]

\* An istringstream over the data, or (with no data) an ifstream that could
\* not be opened: failbit set, eofbit clear.
Init ==
    /\ segs \in SegLists
    /\ data = Text(segs)
    /\ in \in {Fresh} \cup (IF segs = <<>> THEN {[Fresh EXCEPT !.fail = TRUE]} ELSE {})
    /\ calls = <<>>
    /\ version = <<>>
    /\ os = <<>> /\ clog = <<>> /\ pc = "lib"

\* A call that does not return is the last thing the caller does.
Returned == IF calls = <<>> THEN TRUE ELSE calls[Len(calls)].out.res.kind /= "Diverges"

CanCall == Len(calls) < MaxCalls /\ Returned

Call(op, o) ==
    /\ calls' = Append(calls, [op |-> op, before |-> in, out |-> o])
    /\ in' = o.in
    /\ UNCHANGED <<data, segs, version, os, clog, pc>>

ReadRecord == CanCall /\ Call("read_record", read_record(data, in))

ReadSubsequentRecord == CanCall /\ Call("read_subsequent_record", read_subsequent_record(data, in))

Next == ReadRecord \/ ReadSubsequentRecord

Spec == Init /\ [][Next]_vars

-----------------------------------------------------------------------------
(* A caller of the detail functions, as the unit tests are: it holds a     *)
(* stream and a version string of its own and calls detail::read_version.  *)

\* std::string version = "initial"
Initial == <<"i","n","i","t","i","a","l">>

InitUnit ==
    /\ segs \in SegLists
    /\ data = Text(segs)
    /\ in = Fresh
    /\ calls = <<>>
    /\ version \in {<<>>, Initial}
    /\ os = <<>> /\ clog = <<>> /\ pc = "lib"

ReadVersion ==
    /\ Len(calls) < MaxCalls
    /\ LET r == read_version(data, in, version) IN
        /\ calls' = Append(calls, [op |-> "read_version", before |-> in, ver |-> version,
                                   out |-> r])
        /\ in' = r.in
        /\ version' = r.version
    /\ UNCHANGED <<data, segs, os, clog, pc>>

NextUnit == ReadVersion

SpecUnit == InitUnit /\ [][NextUnit]_vars

-----------------------------------------------------------------------------
(* The command-line driver (warc.cpp) with the tsv format: read() calls    *)
(* read_subsequent_record until the stream reports end of file and hands   *)
(* every Record to the print function.                                     *)

\* The six characters written before each line of the content: \u000A
Escape == <<"\\", "u", "0", "0", "0", "A">>

\* while (std::getline(is, line)) { os << "\\u000A" << line; }
RECURSIVE tsv_lines(_, _, _)
tsv_lines(c, s, line) ==
    LET g == getline(c, s, line) IN
    IF g.in.fail THEN <<>>
    ELSE Escape \o g.line \o tsv_lines(c, g.in, g.line)

\* A faulty print function: a row for every record, valid response or not.
tsv_unfiltered(fields, content) ==
    trecid(fields).val \o <<TAB>> \o url(fields).val \o <<TAB>>
        \o tsv_lines(content, Fresh, <<>>) \o <<LF>>

\* The print function select_print_fn("tsv") returns: what it writes for a Record
tsv(fields, content) ==
    IF valid_response(fields)
    THEN trecid(fields).val \o <<TAB>> \o url(fields).val \o <<TAB>>
             \o tsv_lines(content, Fresh, <<>>) \o <<LF>>
    ELSE <<>>

\* The input file, opened (or not: failbit) by main
InitDriver ==
    /\ segs \in SegLists
    /\ data = Text(segs)
    /\ in \in {Fresh} \cup (IF segs = <<>> THEN {[Fresh EXCEPT !.fail = TRUE]} ELSE {})
    /\ calls = <<>>
    /\ version = <<>>
    /\ os = <<>> /\ clog = <<>> /\ pc = "read"

\* What one turn of the loop of read() does with the outcome o of its call: a
\* Record is printed, an Error is logged; an exception leaves read() and main
\* (the program is terminated); a call that does not return leaves the driver
\* in it for ever.
Turn(o) ==
    /\ calls' = Append(calls, [op |-> "read_subsequent_record", before |-> in, out |-> o])
    /\ in' = o.in
    /\ os' = IF o.res.kind = "Record" THEN os \o tsv(o.res.fields, o.res.content) ELSE os
    /\ clog' = IF o.res.kind \in ErrorKinds THEN Append(clog, o.res) ELSE clog
    /\ pc' = IF o.res.kind = "Exception" THEN "terminated"
             ELSE IF o.res.kind = "Diverges" THEN "hung"
             ELSE "read"
    /\ UNCHANGED <<data, segs, version>>

\* while (not is.eof()) { match(warcpp::read_subsequent_record(is), ...); }
DriverStep ==
    /\ pc = "read"
    /\ ~in.eof
    /\ Turn(read_subsequent_record(data, in))

\* while (not is.eof()) is left
DriverExit ==
    /\ pc = "read"
    /\ in.eof
    /\ pc' = "done"
    /\ UNCHANGED <<data, segs, in, calls, version, os, clog>>

NextDriver == DriverStep \/ DriverExit

SpecDriver == InitDriver /\ [][NextDriver]_vars

-----------------------------------------------------------------------------
(* Vocabulary of the properties *)

Min(a, b) == IF a <= b THEN a ELSE b

\* The line that starts after position p of d (without its '\n'), and the
\* position just after it.
LineAt(d, p) == SubSeq(d, p + 1, find(d, LF, p + 1) - 1)
LineEndPos(d, p) == Min(find(d, LF, p + 1), Len(d))

\* s with the white space at its two ends removed, and nothing else
RECURSIVE LastNonSpace(_, _)
LastNonSpace(s, i) == IF i = 0 \/ ~isspace(s[i]) THEN i ELSE LastNonSpace(s, i - 1)
Strip(s) == SubSeq(s, find_if_not_space(s, 1), LastNonSpace(s, Len(s)))

\* A version line as the documentation words it: stripped of surrounding white
\* space it has at least 6 characters and starts with WARC/
StatedVersionLine(line) ==
    LET t == Strip(line) IN Len(t) >= 6 /\ SubSeq(t, 1, Len(prefix)) = prefix

\* A version line as the parser takes it: read_version accepts it
IsVersionLine(line) == ~read_version(line, Fresh, <<>>).error

\* The positions of d at which a line starts
LineStarts(d) == {p \in 0..(Len(d) - 1) : p = 0 \/ d[p] = LF}
HasVersionLine(d) == \E p \in LineStarts(d) : IsVersionLine(LineAt(d, p))

\* Where the first version line at or after line start p begins; -1: none
RECURSIVE FirstVersionLine(_, _)
FirstVersionLine(d, p) ==
    IF p >= Len(d) THEN -1
    ELSE IF IsVersionLine(LineAt(d, p)) THEN p
    ELSE IF find(d, LF, p + 1) > Len(d) THEN -1
    ELSE FirstVersionLine(d, find(d, LF, p + 1))

\* A content-length value that is a plain decimal number, and its value
PlainDecimal(str) ==
    /\ str /= <<>>
    /\ \A i \in 1..Len(str) : isdigit(str[i])
    /\ (Len(str) = 1 \/ str[1] /= "0")
RECURSIVE DecimalValue(_)
DecimalValue(str) ==
    IF str = <<>> THEN 0
    ELSE DecimalValue(SubSeq(str, 1, Len(str) - 1)) * 10 + DigitVal(str[Len(str)])
\* the number str denotes is larger than n (n < 10^9)
DeclaresMoreThan(str, n) ==
    PlainDecimal(str) /\ (IF Len(str) > 9 THEN TRUE ELSE DecimalValue(str) > n)
DeclaresLessThanOrEqual(str, n) ==
    PlainDecimal(str) /\ (IF Len(str) > 9 THEN FALSE ELSE DecimalValue(str) <= n)

\* The length of a line terminator (LF or CR LF) right after position p; 0: none
TermLen(d, p) ==
    IF p + 1 <= Len(d) /\ d[p + 1] = LF THEN 1
    ELSE IF p + 2 <= Len(d) /\ d[p + 1] = CR /\ d[p + 2] = LF THEN 2
    ELSE 0
\* Where the record whose body ends at bend ends: after the (at most two) line
\* terminators that directly follow the body
ExtentEnd(d, bend) ==
    IF TermLen(d, bend) = 0 THEN bend
    ELSE bend + TermLen(d, bend) + TermLen(d, bend + TermLen(d, bend))
\* The body is directly followed by its two line terminators, or by the end of
\* the stream in their place
WellTerminated(d, bend) ==
    \/ bend = Len(d)
    \/ TermLen(d, bend) > 0 /\ bend + TermLen(d, bend) = Len(d)
    \/ TermLen(d, bend) > 0 /\ TermLen(d, bend + TermLen(d, bend)) > 0
\* Just after the second '\n' that follows position p, or the end of d
AfterSecondLineFeed(d, p) ==
    LET n1 == find(d, LF, p + 1) IN
    IF n1 > Len(d) THEN Len(d) ELSE Min(find(d, LF, n1 + 1), Len(d))

\* Where the version line of the record call c works on starts; -1: none
VersionStart(c) ==
    IF c.op = "read_record" THEN c.before.pos ELSE FirstVersionLine(data, c.before.pos)

\* The header lines that start at line start p: all lines up to the first
\* blank one (empty, or a lone CR) or the end of d
RECURSIVE HeaderLines(_, _)
HeaderLines(d, p) ==
    IF p >= Len(d) THEN <<>>
    ELSE LET l == LineAt(d, p) IN
         IF l = <<>> \/ l = <<CR>> THEN <<>>
         ELSE IF find(d, LF, p + 1) > Len(d) THEN <<l>>
         ELSE <<l>> \o HeaderLines(d, find(d, LF, p + 1))
\* The position just after that blank line (the end of d when there is none)
RECURSIVE HeaderEnd(_, _)
HeaderEnd(d, p) ==
    IF p >= Len(d) THEN Len(d)
    ELSE LET l == LineAt(d, p) IN
         IF l = <<>> \/ l = <<CR>> THEN LineEndPos(d, p)
         ELSE IF find(d, LF, p + 1) > Len(d) THEN Len(d)
         ELSE HeaderEnd(d, find(d, LF, p + 1))
\* The header lines of the record call c works on
HeaderOf(c) == HeaderLines(data, LineEndPos(data, VersionStart(c)))

AllWellFormed == segs /= <<>> /\ \A j \in 1..Len(segs) : segs[j].kind = "wf"

OpsAre(ops) ==
    /\ Len(calls) >= Len(ops)
    /\ \A i \in 1..Len(ops) : calls[i].op = ops[i]

-----------------------------------------------------------------------------
(* C1 *)

\* C1: whenever read_record or read_subsequent_record returns a Record, the
\* length of its content equals the integer std::stoi reads from its
\* content-length field.
C1_ContentLengthMatches ==
    \A i \in 1..Len(calls) :
        LET r == calls[i].out.res IN
        r.kind = "Record" => Len(r.content) = stoi(r.fields[Content_Length]).val

\* Both entry points have returned a Record with a body that is not empty.
C1_Witness ==
    /\ \E i \in 1..Len(calls) :
         /\ calls[i].op = "read_record"
         /\ calls[i].out.res.kind = "Record"
         /\ Len(calls[i].out.res.content) = 2
    /\ \E i \in 1..Len(calls) :
         /\ calls[i].op = "read_subsequent_record"
         /\ calls[i].out.res.kind = "Record"
         /\ Len(calls[i].out.res.content) > 2

(* C2 *)

\* C2: when the header was accepted with both mandatory fields and fewer bytes
\* than the declared content-length remain, the call returns Incomplete_Record;
\* and no Record has a content shorter than the length its header declares.
C2_ShortBodyIsIncomplete ==
    \A i \in 1..Len(calls) :
        LET o == calls[i].out IN
        /\ (/\ o.hend /= -1
            /\ valid(o.fields)
            /\ DeclaresMoreThan(o.fields[Content_Length], Len(data) - o.hend))
           => o.res.kind = "Incomplete_Record"
        /\ (o.res.kind = "Record" /\ PlainDecimal(o.res.fields[Content_Length]))
           => DeclaresLessThanOrEqual(o.res.fields[Content_Length], Len(o.res.content))

(* C3 *)

\* C3 as stated: a call that returns a Record has consumed nothing beyond the
\* record's extent: its body and the line terminators that directly follow it.
C3_NeverPastExtent ==
    \A i \in 1..Len(calls) :
        LET o == calls[i].out IN
        o.res.kind = "Record" => o.in.pos <= ExtentEnd(data, o.bend)

\* C3 amended: a call that returns a Record has consumed up to and including
\* the second line feed after the body (or to the end of the stream); when the
\* body is directly followed by its two line terminators (or by the end of the
\* stream in their place) that is exactly the end of the record, and every
\* byte after it is unread.
C3_StopsAtExtentWhenTerminated ==
    \A i \in 1..Len(calls) :
        LET o == calls[i].out IN
        o.res.kind = "Record" =>
            /\ o.in.pos = AfterSecondLineFeed(data, o.bend)
            /\ WellTerminated(data, o.bend) => o.in.pos = ExtentEnd(data, o.bend)

\* A Record was returned from a well-terminated record with another record
\* still unread behind it.
C3_Witness ==
    \E i \in 1..Len(calls) :
        LET o == calls[i].out IN
        /\ o.res.kind = "Record"
        /\ WellTerminated(data, o.bend)
        /\ o.in.pos < Len(data)
        /\ IsVersionLine(LineAt(data, o.in.pos))

(* C4 *)

\* C4: on a stream made of k well-formed records, the first k calls (each of
\* them read_record or read_subsequent_record) return Records with the k bodies
\* in stream order, and the k-th call leaves no byte unread.
C4_BodiesInOrder ==
    AllWellFormed =>
        \A i \in 1..Len(calls) :
            i <= Len(segs) =>
                LET o == calls[i].out IN
                /\ o.res.kind = "Record"
                /\ o.res.content = segs[i].body
                /\ (i = Len(segs) => o.in.pos = Len(data))

\* Two well-formed records with different bodies, both read.
C4_Witness ==
    /\ AllWellFormed
    /\ Len(segs) = 2
    /\ segs[1].body /= segs[2].body
    /\ Len(calls) >= 2
    /\ calls[2].out.res.kind = "Record"
    /\ calls[2].out.res.content = segs[2].body
    /\ calls[1].op = calls[2].op

(* C5 *)

\* The stream of C5: a record lacking a mandatory field, then a well-formed one
C5_Stream == Len(segs) = 2 /\ segs[1].kind = "nomand" /\ segs[2].kind = "wf"

C5_Sequence ==
    /\ OpsAre(<<"read_record">>)
       => calls[1].out.res.kind = "Missing_Mandatory_Fields"
    /\ OpsAre(<<"read_record", "read_subsequent_record">>)
       => /\ calls[2].out.res.kind = "Record"
          /\ calls[2].out.res.content = segs[2].body
    /\ OpsAre(<<"read_record", "read_subsequent_record", "read_subsequent_record">>)
       => calls[3].out.res.kind = "Invalid_Version"

\* C5 as stated: on such a stream read_record returns Missing_Mandatory_Fields,
\* the next read_subsequent_record returns the well-formed record's content and
\* a further read_subsequent_record returns Invalid_Version.
C5_SkipCorrupted == C5_Stream => C5_Sequence

\* C5 amended: the same, provided no line of the corrupted record after its
\* header (its body bytes and the two line ends after them, which read_record
\* leaves unread) is a version line.
C5_SkipCorruptedNoVersionInBody ==
    (C5_Stream /\ ~HasVersionLine(segs[1].body \o <<LF, LF>>)) => C5_Sequence

\* The three calls were made on such a stream and the second found the record.
C5_Witness ==
    /\ C5_Stream
    /\ ~HasVersionLine(segs[1].body \o <<LF, LF>>)
    /\ OpsAre(<<"read_record", "read_subsequent_record", "read_subsequent_record">>)
    /\ calls[2].out.res.kind = "Record"
    /\ calls[2].out.res.content /= <<>>

(* C6 *)

\* C6: a read_subsequent_record call on a good stream whose unread bytes are
\* J followed by S, J being lines read_version rejects and S starting with a
\* line it accepts, returns what read_record returns on S alone, and leaves as
\* many bytes unread.
C6_SubsequentIsRecordAfterJunk ==
    \A i \in 1..Len(calls) :
        (calls[i].op = "read_subsequent_record" /\ good(calls[i].before)) =>
            LET o == calls[i].out
                q == FirstVersionLine(data, calls[i].before.pos)
                S == SubSeq(data, q + 1, Len(data))
                r == read_record(S, Fresh)
            IN q /= -1 =>
                /\ o.res = r.res
                /\ Len(data) - o.in.pos = Len(S) - r.in.pos
                /\ o.in.eof = r.in.eof /\ o.in.fail = r.in.fail

\* read_subsequent_record skipped junk lines and returned a Record.
C6_Witness ==
    \E i \in 1..Len(calls) :
        /\ calls[i].op = "read_subsequent_record"
        /\ good(calls[i].before)
        /\ FirstVersionLine(data, calls[i].before.pos) > calls[i].before.pos
        /\ calls[i].out.res.kind = "Record"

(* C7 *)

\* C7: no call of read_record or read_subsequent_record is left by an
\* exception: a call that fails returns an Error of one of the four kinds.
C7_NeverThrows ==
    \A i \in 1..Len(calls) : calls[i].out.res.kind /= "Exception"

(* C8 *)

C9_VersionCheck ==
    \A i \in 1..Len(calls) :
        LET o == calls[i].out
            b == calls[i].before
            t == Strip(LineAt(data, b.pos))
        IN (good(b) /\ b.pos < Len(data)) =>
            /\ ~o.error <=> StatedVersionLine(LineAt(data, b.pos))
            /\ ~o.error => o.version = SubSeq(t, Len(prefix) + 1, Len(t))

(* C10 *)

\* C10: read_version called with nothing left to read fails with an empty
\* payload, and a failing read_version leaves the caller's version string as
\* it was.
C10_FailureKeepsVersion ==
    \A i \in 1..Len(calls) :
        LET o == calls[i].out IN
        /\ calls[i].before.pos = Len(data) => o.error /\ o.payload = <<>>
        /\ o.error => o.version = calls[i].ver

\* read_version failed on an empty stream for a caller whose version string
\* was not empty, and failed on a line for such a caller.
C10_Witness ==
    /\ data = <<>>
    /\ \E i \in 1..Len(calls) :
         /\ calls[i].out.error
         /\ calls[i].ver = Initial
         /\ calls[i].out.version = Initial
         /\ calls[i].out.payload = <<>>

(* C11 *)

\* C11: read_subsequent_record returns Invalid_Version only when no version
\* line starts at or after the first unread line; it has then read to the end
\* of the stream and the payload is empty.  When a version line lies ahead,
\* also as the last line without a line terminator, the call works on the
\* record that starts at the first such line.
C11_InvalidVersionOnlyAtEnd ==
    \A i \in 1..Len(calls) :
        LET o == calls[i].out
            b == calls[i].before
            q == FirstVersionLine(data, b.pos)
        IN (calls[i].op = "read_subsequent_record" /\ (good(b) \/ b.eof)) =>
            /\ o.res.kind = "Invalid_Version" =>
                 /\ q = -1
                 /\ o.res.version = <<>>
                 /\ o.in.pos = Len(data) /\ o.in.eof
            /\ q = -1 => o.res = Invalid_Version(<<>>)
            /\ q /= -1 => o.vstart = q

\* read_subsequent_record found a version line that is the last line of the
\* stream, without a line terminator, behind lines it discarded; the call
\* after it, with nothing left to read, returned Invalid_Version.
C11_Witness ==
    \E i \in 1..Len(calls) :
        LET q == FirstVersionLine(data, calls[i].before.pos) IN
        /\ calls[i].op = "read_subsequent_record"
        /\ q > calls[i].before.pos
        /\ find(data, LF, q + 1) > Len(data)
        /\ calls[i].out.vstart = q
        /\ calls[i].out.res.kind /= "Invalid_Version"
        /\ i < Len(calls)
        /\ calls[i + 1].op = "read_subsequent_record"
        /\ calls[i + 1].out.res = Invalid_Version(<<>>)

(* C12 *)

\* C12: every read_subsequent_record call made on a stream that is good
\* returns: it ends with a Result (or an exception), it does not run for ever.
C12_SubsequentReturns ==
    \A i \in 1..Len(calls) :
        (calls[i].op = "read_subsequent_record" /\ good(calls[i].before))
            => calls[i].out.res.kind /= "Diverges"

(* C13 *)

\* C13: when the header was parsed and lacks warc-type or content-length, the
\* call returns Missing_Mandatory_Fields; and a call that returns
\* Missing_Mandatory_Fields has consumed the stream up to just after the blank
\* line that ends the header (or to the end of the stream, when the header is
\* cut off there) and not a byte more: what follows is unread.
C13_MissingLeavesBody ==
    \A i \in 1..Len(calls) :
        LET o == calls[i].out
            q == VersionStart(calls[i])
        IN /\ (o.hend /= -1 /\ ~valid(o.fields)) => o.res.kind = "Missing_Mandatory_Fields"
           /\ o.res.kind = "Missing_Mandatory_Fields" =>
                /\ q /= -1
                /\ ~valid(o.fields)
                /\ o.in.pos = HeaderEnd(data, LineEndPos(data, q))

\* Both entry points returned Missing_Mandatory_Fields with the body of the
\* record as the next unread bytes.
C13_Witness ==
    \A op \in {"read_record", "read_subsequent_record"} :
        \E i \in 1..Len(calls) :
            LET o == calls[i].out IN
            /\ calls[i].op = op
            /\ o.res.kind = "Missing_Mandatory_Fields"
            /\ o.in.pos + Len(AB) < Len(data)
            /\ SubSeq(data, o.in.pos + 1, o.in.pos + Len(AB)) = AB

(* C14 *)

\* A header line the documentation rejects: it has no colon, or the text
\* before or after its first colon is empty once the white space at its two
\* ends is removed
StatedBadField(l) ==
    \/ find(l, ":", 1) > Len(l)
    \/ Strip(split(l, ":")[1]) = <<>>
    \/ Strip(split(l, ":")[2]) = <<>>

\* C14: when the header of the record a call works on has such a line, the
\* call returns Invalid_Field carrying the first such line as it was read.
C14_BadFieldIsInvalidField ==
    \A i \in 1..Len(calls) :
        LET o == calls[i].out
            ls == HeaderOf(calls[i])
            bad == {j \in 1..Len(ls) : StatedBadField(ls[j])}
        IN (o.vstart /= -1 /\ bad /= {}) =>
            o.res = Invalid_Field(ls[CHOOSE j \in bad : \A k \in bad : j <= k])

(* C15 *)

\* C15: in the field map of every call that parsed a header, each key is not
\* empty, has no upper-case letter and no white space at its two ends, and
\* each value is not empty.
C15_KeysAndValues ==
    \A i \in 1..Len(calls) :
        LET f == calls[i].out.fields IN
        \A k \in DOMAIN f :
            /\ k /= <<>>
            /\ \A n \in 1..Len(k) : ~(\E u \in 1..Len(Upper) : Upper[u] = k[n])
            /\ k = Strip(k)
            /\ f[k] /= <<>>

(* C16 *)

\* The name and the value of a header line as the documentation words them:
\* the text before the first colon, lower-cased, and the text after it, each
\* with the white space at its two ends removed and nothing else
StatedName(l) == transform_tolower(Strip(split(l, ":")[1]))
StatedValue(l) == Strip(split(l, ":")[2])

\* C16: on a stream of well-formed records, the Record returned for the i-th
\* record maps the name of each header line (the last line of that name) to
\* the text after the line's first colon with the white space at its two ends
\* removed, inner spaces and later colons kept.
C16_ValuesAreStripped ==
    AllWellFormed =>
        \A i \in 1..Len(calls) :
            LET r == calls[i].out.res
                ls == HeaderOf(calls[i])
            IN (i <= Len(segs) /\ r.kind = "Record") =>
                \A j \in 1..Len(ls) :
                    (\A k \in (j + 1)..Len(ls) : StatedName(ls[k]) /= StatedName(ls[j])) =>
                        /\ StatedName(ls[j]) \in DOMAIN r.fields
                        /\ r.fields[StatedName(ls[j])] = StatedValue(ls[j])

(* C17 *)

\* The concatenation of the sequences f[lo], ..., f[hi]
RECURSIVE Concat(_, _, _)
Concat(f, lo, hi) ==
    IF lo > hi THEN <<>>
    ELSE IF lo = hi THEN f[lo]
    ELSE Concat(f, lo, (lo + hi) \div 2) \o Concat(f, ((lo + hi) \div 2) + 1, hi)

\* s with every LF line end written as CR LF, and with every CR LF line end
\* written as LF
ToCRLF(s) ==
    Concat([i \in 1..Len(s) |->
               IF s[i] = LF /\ ~(i > 1 /\ s[i - 1] = CR) THEN <<CR, LF>> ELSE <<s[i]>>],
           1, Len(s))
ToLF(s) ==
    Concat([i \in 1..Len(s) |->
               IF s[i] = CR /\ i < Len(s) /\ s[i + 1] = LF THEN <<>> ELSE <<s[i]>>],
           1, Len(s))

\* Two results of the same kind and, when Records, with the same version,
\* fields and content
SameParse(a, b) ==
    /\ a.kind = b.kind
    /\ a.kind = "Record" =>
         a.version = b.version /\ a.fields = b.fields /\ a.content = b.content

\* C17: the result of a call equals, in kind and (for a Record) in version,
\* fields and content, the result of read_record on the same record with the
\* line ends of its version line and header block all written as CR LF, and
\* with all of them written as LF.
C17_LineEndsInterchangeable ==
    \A i \in 1..Len(calls) :
        LET o == calls[i].out
            q == VersionStart(calls[i])
            S == SubSeq(data, q + 1, Len(data))
            h == HeaderEnd(S, LineEndPos(S, 0))
            head == SubSeq(S, 1, h)
            rest == SubSeq(S, h + 1, Len(S))
        IN (good(calls[i].before) /\ q /= -1 /\ q < Len(data)) =>
            /\ SameParse(o.res, read_record(ToCRLF(head) \o rest, Fresh).res)
            /\ SameParse(o.res, read_record(ToLF(head) \o rest, Fresh).res)

(* C18 *)

\* The name of a header line after trimming and lower-casing, and its value
TrimmedName(l) == transform_tolower(trim(split(l, ":")[1]))
TrimmedValue(l) == trim(split(l, ":")[2])

\* C18: the field map of a call that parsed a header has exactly one entry
\* for each name that occurs in the header lines, and the entry's value is the
\* value of the last line that has that name.
C18_LastOccurrenceWins ==
    \A i \in 1..Len(calls) :
        LET o == calls[i].out
            ls == HeaderOf(calls[i])
        IN o.hend /= -1 =>
            /\ DOMAIN o.fields = {TrimmedName(ls[j]) : j \in 1..Len(ls)}
            /\ \A j \in 1..Len(ls) :
                 (\A k \in (j + 1)..Len(ls) : TrimmedName(ls[k]) /= TrimmedName(ls[j]))
                     => o.fields[TrimmedName(ls[j])] = TrimmedValue(ls[j])

\* A Record was returned for a header in which three lines, spelled in three
\* ways, name the same field with three values; the field has the last value.
C18_Witness ==
    \E i \in 1..Len(calls) :
        LET r == calls[i].out.res
            ls == HeaderOf(calls[i])
        IN /\ r.kind = "Record"
           /\ \E j1, j2, j3 \in 1..Len(ls) :
                /\ j1 < j2 /\ j2 < j3
                /\ split(ls[j1], ":")[1] /= split(ls[j2], ":")[1]
                /\ split(ls[j2], ":")[1] /= split(ls[j3], ":")[1]
                /\ TrimmedName(ls[j1]) = TrimmedName(ls[j3])
                /\ TrimmedName(ls[j2]) = TrimmedName(ls[j3])
                /\ TrimmedValue(ls[j1]) /= TrimmedValue(ls[j3])
                /\ TrimmedValue(ls[j2]) /= TrimmedValue(ls[j3])
                /\ r.fields[TrimmedName(ls[j3])] = TrimmedValue(ls[j3])
                /\ Cardinality(DOMAIN r.fields) = Len(ls) - 2

(* C19 *)

\* a and b are the same text but for the case of their letters
SameLetters(a, b) ==
    /\ Len(a) = Len(b)
    /\ \A n \in 1..Len(a) :
         \/ a[n] = b[n]
         \/ \E u \in 1..Len(Upper) : {a[n], b[n]} = {Upper[u], Lower[u]}
\* Some header line of ls has the name x, in whatever case
HasName(ls, x) == \E j \in 1..Len(ls) : SameLetters(trim(split(ls[j], ":")[1]), x)

\* C19: a parsed header passes the mandatory-field check exactly when lines
\* named warc-type and content-length occur in it, the names compared without
\* regard to letter case; and a returned Record is a valid response exactly
\* when, in the same sense, warc-target-uri and warc-trec-id occur as well and
\* its type is response.
C19_NamesInAnyCase ==
    \A i \in 1..Len(calls) :
        LET o == calls[i].out
            ls == HeaderOf(calls[i])
            mandatory == HasName(ls, Warc_Type) /\ HasName(ls, Content_Length)
        IN o.hend /= -1 =>
            /\ mandatory <=> valid(o.fields)
            /\ mandatory <=> o.res.kind /= "Missing_Mandatory_Fields"
            /\ o.res.kind = "Record" =>
                 (valid_response(o.res.fields)
                    <=> /\ HasName(ls, Warc_Target_Uri)
                        /\ HasName(ls, Warc_Trec_Id)
                        /\ o.res.fields[Warc_Type] = Response)

\* A Record that is a valid response was returned for a header in which none
\* of the four names is written in lower case.
C19_Witness ==
    \E i \in 1..Len(calls) :
        LET r == calls[i].out.res
            ls == HeaderOf(calls[i])
        IN /\ r.kind = "Record"
           /\ valid_response(r.fields)
           /\ \A j \in 1..Len(ls) :
                split(ls[j], ":")[1] /= transform_tolower(split(ls[j], ":")[1])

(* C20 *)

\* str is entirely a non-negative decimal integer
AllDigits(str) == str /= <<>> /\ \A n \in 1..Len(str) : isdigit(str[n])

\* C20: a call whose parsed header has both mandatory fields and a
\* content-length value that is not entirely a non-negative decimal integer
\* does not return a Record.
C20_BadLengthNoRecord ==
    \A i \in 1..Len(calls) :
        LET o == calls[i].out IN
        (/\ o.hend /= -1
         /\ valid(o.fields)
         /\ ~AllDigits(o.fields[Content_Length]))
            => o.res.kind /= "Record"

(* C21 *)

\* C21: a call whose parsed header has both mandatory fields and the
\* content-length 0 returns a Record with empty content; no byte is taken as
\* body, the stream is left just after the second line feed that follows the
\* header's blank line, which is the end of the two line terminators when
\* these directly follow that blank line.
C21_ZeroLength ==
    \A i \in 1..Len(calls) :
        LET o == calls[i].out
            h == HeaderEnd(data, LineEndPos(data, VersionStart(calls[i])))
        IN (/\ o.hend /= -1
            /\ valid(o.fields)
            /\ AllDigits(o.fields[Content_Length])
            /\ Len(o.fields[Content_Length]) <= 9
            /\ DecimalValue(o.fields[Content_Length]) = 0) =>
            /\ o.res.kind = "Record"
            /\ o.res.content = <<>>
            /\ o.bend = h
            /\ o.in.pos = AfterSecondLineFeed(data, h)
            /\ WellTerminated(data, h) => o.in.pos = ExtentEnd(data, h)

\* A record with content-length 0 and LF line ends was returned with another
\* record unread behind its two line terminators.
C21_Witness ==
    \E i \in 1..Len(calls) :
        LET o == calls[i].out IN
        /\ o.res.kind = "Record"
        /\ o.res.fields[Content_Length] = <<"0">>
        /\ o.res.content = <<>>
        /\ o.in.pos = o.hend + 2
        /\ o.in.pos < Len(data)
        /\ IsVersionLine(LineAt(data, o.in.pos))

(* C22 *)

\* C22: the content of a returned Record is, byte for byte, the bytes of the
\* stream that follow the header's blank line, as many as the content-length
\* says, whatever these bytes are.
C22_ContentVerbatim ==
    \A i \in 1..Len(calls) :
        LET r == calls[i].out.res
            h == HeaderEnd(data, LineEndPos(data, VersionStart(calls[i])))
        IN r.kind = "Record" =>
            /\ Len(r.content) = stoi(r.fields[Content_Length]).val
            /\ r.content = SubSeq(data, h + 1, h + Len(r.content))

\* A Record was returned whose content holds line feeds and a line that
\* read_version accepts.
C22_Witness ==
    \E i \in 1..Len(calls) :
        LET r == calls[i].out.res IN
        /\ r.kind = "Record"
        /\ \E n \in 1..Len(r.content) : r.content[n] = LF
        /\ HasVersionLine(r.content)

(* C23 *)

\* C23: for the record of every call, valid() is true exactly when its field
\* map has the keys warc-type and content-length, and valid_response() is true
\* exactly when it has these two, warc-target-uri and warc-trec-id, and the
\* value of warc-type is response.
C23_ValidAndValidResponse ==
    \A i \in 1..Len(calls) :
        LET f == calls[i].out.fields IN
        /\ valid(f) <=> {Warc_Type, Content_Length} \subseteq DOMAIN f
        /\ valid_response(f) <=>
             /\ {Warc_Type, Content_Length, Warc_Target_Uri, Warc_Trec_Id} \subseteq DOMAIN f
             /\ f[Warc_Type] = Response

\* Two Records were returned that both have warc-target-uri and
\* warc-trec-id: one of type response, which is a valid response, and one of
\* another type, which is not.
C23_Witness ==
    \E i, j \in 1..Len(calls) :
        LET f == calls[i].out.res
            g == calls[j].out.res
        IN /\ f.kind = "Record" /\ g.kind = "Record"
           /\ valid_response(f.fields)
           /\ {Warc_Target_Uri, Warc_Trec_Id} \subseteq DOMAIN g.fields
           /\ g.fields[Warc_Type] /= Response
           /\ ~valid_response(g.fields)

(* C24 *)

\* C24: the field map of every Record returned by read_record or
\* read_subsequent_record has the keys warc-type and content-length.
C24_RecordsAreValid ==
    \A i \in 1..Len(calls) :
        LET r == calls[i].out.res IN
        r.kind = "Record" =>
            /\ valid(r.fields)
            /\ Warc_Type \in DOMAIN r.fields
            /\ Content_Length \in DOMAIN r.fields

\* A call refused a record whose header has a content-length but no
\* warc-type, and the call after it returned a Record.
C24_Witness ==
    \E i \in 1..Len(calls) :
        /\ calls[i].out.res.kind = "Missing_Mandatory_Fields"
        /\ Content_Length \in DOMAIN calls[i].out.fields
        /\ i < Len(calls)
        /\ calls[i + 1].out.res.kind = "Record"

(* C25 *)

\* The names looked up: the keys of the map and names that may be absent
ProbeNames(f) ==
    (DOMAIN f) \cup {Warc_Type, Warc_Target_Uri, Warc_Trec_Id, Content_Length, <<>>}

\* C25: on every returned Record field(name) yields the stored value for a
\* key of the map and the not-found result for any other name; and when
\* valid_response() is true, type(), url() and trecid() yield the stored
\* warc-type, warc-target-uri and warc-trec-id values and do not throw.
C25_Accessors ==
    \A i \in 1..Len(calls) :
        LET r == calls[i].out.res IN
        r.kind = "Record" =>
            /\ \A n \in ProbeNames(r.fields) :
                 field(r.fields, n) =
                     IF n \in DOMAIN r.fields
                     THEN [found |-> TRUE, value |-> r.fields[n]]
                     ELSE [found |-> FALSE, value |-> <<>>]
            /\ valid_response(r.fields) =>
                 /\ type(r.fields) = [exc |-> "none", val |-> r.fields[Warc_Type]]
                 /\ url(r.fields) = [exc |-> "none", val |-> r.fields[Warc_Target_Uri]]
                 /\ trecid(r.fields) = [exc |-> "none", val |-> r.fields[Warc_Trec_Id]]

\* A Record that is a valid response was returned, and a Record on which the
\* lookup of warc-trec-id finds nothing.
C25_Witness ==
    /\ \E i \in 1..Len(calls) :
         /\ calls[i].out.res.kind = "Record"
         /\ valid_response(calls[i].out.res.fields)
         /\ url(calls[i].out.res.fields).val /= <<>>
    /\ \E i \in 1..Len(calls) :
         /\ calls[i].out.res.kind = "Record"
         /\ ~field(calls[i].out.res.fields, Warc_Trec_Id).found

(* C29 *)

\* The number of line feeds of d after position p and up to position q
LineFeeds(d, p, q) == Cardinality({n \in (p + 1)..q : d[n] = LF})

\* C29: in every call the phases follow one another in the order version,
\* header, body: a phase was reached only if the one before it succeeded, a
\* failure is returned from the phase it occurred in with the later phases
\* not entered, the header block was parsed once (it ends at the first blank
\* line after the version line) and the body read once (it ends
\* content-length bytes after the header).  read_record makes one attempt at
\* the version line; read_subsequent_record makes one for each line it
\* discards and one for the line it accepts.
C29_PhaseOrder ==
    \A i \in 1..Len(calls) :
        LET o == calls[i].out
            b == calls[i].before
            k == o.res.kind
        IN k /= "Diverges" =>
            /\ o.tries >= 1
            /\ calls[i].op = "read_record" => o.tries = 1
            /\ (good(b) /\ o.vstart /= -1) => o.tries = LineFeeds(data, b.pos, o.vstart) + 1
            /\ o.bend /= -1 => o.hend /= -1
            /\ o.hend /= -1 => o.vstart /= -1
            /\ o.vstart /= -1 => b.pos <= o.vstart
            /\ o.hend /= -1 => o.hend = HeaderEnd(data, LineEndPos(data, o.vstart))
            /\ o.bend /= -1 => o.bend = o.hend + Len(o.res.content)
            /\ k = "Invalid_Version" => o.vstart = -1 /\ o.hend = -1 /\ o.bend = -1
            /\ k = "Invalid_Field" => o.vstart /= -1 /\ o.hend = -1 /\ o.bend = -1
            /\ k = "Missing_Mandatory_Fields" => o.hend /= -1 /\ o.bend = -1 /\ o.in.pos = o.hend
            /\ k = "Incomplete_Record" => o.hend /= -1 /\ o.bend = -1
            /\ k = "Record" => o.bend /= -1 /\ o.bend <= o.in.pos

\* read_record stopped after the header of a record, and the
\* read_subsequent_record call after it made three attempts at a version line
\* or more and returned a Record with a body.
C29_Witness ==
    \E i \in 1..Len(calls) :
        /\ calls[i].op = "read_record"
        /\ calls[i].out.res.kind = "Missing_Mandatory_Fields"
        /\ calls[i].out.tries = 1
        /\ i < Len(calls)
        /\ calls[i + 1].op = "read_subsequent_record"
        /\ calls[i + 1].out.tries >= 3
        /\ calls[i + 1].out.res.kind = "Record"
        /\ calls[i + 1].out.res.content /= <<>>

(* C30 *)

\* A header line detail::read_fields does not parse: nothing before its first
\* colon, or nothing after it (which includes a line without a colon)
RejectedLine(l) == split(l, ":")[1] = <<>> \/ split(l, ":")[2] = <<>>

\* C30: a call that found its version line returns Invalid_Field, carrying
\* the first header line that does not parse, whenever the header has such a
\* line, whether or not the mandatory fields are there;
\* Missing_Mandatory_Fields is returned only when every header line parsed and
\* warc-type or content-length is not among them; Incomplete_Record only when
\* every header line parsed and both are among them; Invalid_Version only
\* when no version line was found.
C30_FirstFailedPhase ==
    \A i \in 1..Len(calls) :
        LET o == calls[i].out
            k == o.res.kind
            ls == HeaderOf(calls[i])
            rejected == {j \in 1..Len(ls) : RejectedLine(ls[j])}
            mandatory == HasName(ls, Warc_Type) /\ HasName(ls, Content_Length)
        IN /\ k = "Invalid_Version" <=> (o.vstart = -1 /\ k /= "Diverges")
           /\ (o.vstart /= -1 /\ rejected /= {}) =>
                o.res = Invalid_Field(ls[CHOOSE j \in rejected : \A n \in rejected : j <= n])
           /\ k = "Invalid_Field" => rejected /= {}
           /\ k = "Missing_Mandatory_Fields" => rejected = {} /\ ~mandatory
           /\ k = "Incomplete_Record" => rejected = {} /\ mandatory

\* Invalid_Field was returned for a header that also lacks the mandatory
\* fields, and for one that has them.
C30_Witness ==
    /\ \E i \in 1..Len(calls) :
         /\ calls[i].out.res.kind = "Invalid_Field"
         /\ ~HasName(HeaderOf(calls[i]), Warc_Type)
         /\ ~HasName(HeaderOf(calls[i]), Content_Length)
    /\ \E i \in 1..Len(calls) :
         /\ calls[i].out.res.kind = "Invalid_Field"
         /\ HasName(HeaderOf(calls[i]), Warc_Type)

(* C26 *)

\* C26: the read loop of the driver, started on a stream that is good, is
\* never caught in a read_subsequent_record call that does not return: every
\* turn of the loop ends, and the loop is left when the stream reports end of
\* file.
C26_DriverLoopEnds ==
    pc = "hung" => ~good(calls[Len(calls)].before)

(* C27 *)

\* The calls of the driver that returned a Record that is a valid response
IsResponseCall(c) == c.out.res.kind = "Record" /\ valid_response(c.out.res.fields)
ResponseCalls == SelectSeq(calls, IsResponseCall)

\* The j-th line of d, without its line feed
RECURSIVE NthLine(_, _)
NthLine(d, j) ==
    IF j <= 1 THEN LineAt(d, 0)
    ELSE NthLine(SubSeq(d, find(d, LF, 1) + 1, Len(d)), j - 1)

\* C27: at every moment the tsv output of the driver has one line feed for
\* each valid-response Record returned so far and ends with a line feed unless
\* it is empty; its j-th line starts with the warc-trec-id, a tab, the
\* warc-target-uri and a tab of the j-th such Record.  Records that are not a
\* valid response and Errors add nothing to it.
C27_OneLinePerResponse ==
    pc /= "lib" =>
        /\ LineFeeds(os, 0, Len(os)) = Len(ResponseCalls)
        /\ os /= <<>> => os[Len(os)] = LF
        /\ \A j \in 1..Len(ResponseCalls) :
             LET f == ResponseCalls[j].out.res.fields
                 start == f[Warc_Trec_Id] \o <<TAB>> \o f[Warc_Target_Uri] \o <<TAB>>
             IN SubSeq(NthLine(os, j), 1, Len(start)) = start

\* The driver has read a record that is not a valid response, an Error and
\* a valid response whose content has line feeds, and has ended; its output
\* is one line.
C27_Witness ==
    /\ pc = "done"
    /\ Len(ResponseCalls) = 1
    /\ LineFeeds(ResponseCalls[1].out.res.content, 0, Len(ResponseCalls[1].out.res.content)) >= 2
    /\ \E i \in 1..Len(calls) :
         calls[i].out.res.kind = "Record" /\ ~valid_response(calls[i].out.res.fields)
    /\ clog /= <<>>
    /\ LineFeeds(os, 0, Len(os)) = 1

(* C28 *)

\* c with every line feed replaced by the six characters \u000A
Replaced(c) ==
    Concat([n \in 1..Len(c) |-> IF c[n] = LF THEN Escape ELSE <<c[n]>>], 1, Len(c))

\* C28: the j-th line of the tsv output is the warc-trec-id, a tab, the
\* warc-target-uri, a tab and the content of the j-th valid-response Record
\* with every line feed replaced by \u000A and nothing else changed.
C28_LineFeedsReplaced ==
    pc /= "lib" =>
        \A j \in 1..Len(ResponseCalls) :
            LET r == ResponseCalls[j].out.res IN
            NthLine(os, j) = r.fields[Warc_Trec_Id] \o <<TAB>> \o r.fields[Warc_Target_Uri]
                                 \o <<TAB>> \o Replaced(r.content)

(* C31 *)

\* C31: a call whose header is valid and whose content-length bytes are all
\* there returns a Record and leaves the stream just after the second line
\* feed that follows the body, or at the end of the stream (end-of-file flag
\* set) when fewer than two line feeds follow, whatever the bytes between the
\* body and that line feed are: a line end need not follow the body at once.
C31_SkipsToSecondLineFeed ==
    \A i \in 1..Len(calls) :
        LET o == calls[i].out
            cl == content_length(o.fields)
        IN (/\ o.hend /= -1
            /\ valid(o.fields)
            /\ cl.exc = "none"
            /\ cl.val >= 0
            /\ o.hend + cl.val <= Len(data)) =>
            /\ o.res.kind = "Record"
            /\ o.bend = o.hend + cl.val
            /\ o.in.pos = AfterSecondLineFeed(data, o.bend)
            /\ o.in.eof <=> LineFeeds(data, o.bend, Len(data)) < 2
            /\ LineFeeds(data, o.bend, o.in.pos) <= 2

\* A Record was returned whose content-length is shorter than its body text:
\* the byte after the content is no line end, it and the rest of the body
\* text were discarded, and the next call found the record behind it.
C31_Witness ==
    \E i \in 1..Len(calls) :
        LET o == calls[i].out IN
        /\ o.res.kind = "Record"
        /\ o.res.content = <<"a">>
        /\ SubSeq(data, o.bend + 1, o.bend + 2) = <<"b", "c">>
        /\ o.in.pos = o.bend + 4
        /\ i < Len(calls)
        /\ calls[i + 1].out.res.kind = "Record"
        /\ calls[i + 1].out.vstart = o.in.pos


(* C32 *)

\* Where the first blank line (empty, or a lone CR, with its line feed) at or
\* after line start p begins; -1: the lines from p on hold no blank line
RECURSIVE FirstBlankLine(_, _)
FirstBlankLine(d, p) ==
    IF p >= Len(d) \/ find(d, LF, p + 1) > Len(d) THEN -1
    ELSE IF LineAt(d, p) \in {<<>>, <<CR>>} THEN p
    ELSE FirstBlankLine(d, find(d, LF, p + 1))

\* C32: when detail::read_fields succeeds on a header block that a blank line
\* ends, it has consumed the header lines and that blank line and no more: the
\* stream is left, still good, just after the line feed of the first blank
\* line behind the version line, with LF and with CR LF line ends, and the
\* body is taken from there.
C32_HeaderConsumedExactly ==
    \A i \in 1..Len(calls) :
        LET o == calls[i].out
            q == FirstBlankLine(data, LineEndPos(data, o.vstart))
        IN (o.hend /= -1 /\ q /= -1) =>
            /\ o.hend = q + Len(LineAt(data, q)) + 1
            /\ data[o.hend] = LF
            /\ o.res.kind = "Missing_Mandatory_Fields" =>
                   o.in = [pos |-> o.hend, eof |-> FALSE, fail |-> FALSE]
            /\ o.res.kind = "Record" =>
                   o.res.content = SubSeq(data, o.hend + 1, o.hend + Len(o.res.content))

\* Two records were returned, one from a header with LF line ends and one
\* from a header with CR LF line ends, both with a body that starts right
\* after the header's blank line.
C32_Witness ==
    \E i, j \in 1..Len(calls) :
        LET a == calls[i].out
            b == calls[j].out
        IN /\ a.res.kind = "Record" /\ b.res.kind = "Record"
           /\ a.res.content = AB /\ b.res.content = AB
           /\ SubSeq(data, a.hend - 1, a.hend) = <<LF, LF>>
           /\ SubSeq(data, b.hend - 2, b.hend) = <<LF, CR, LF>>
           /\ SubSeq(data, a.hend + 1, a.hend + 2) = AB
           /\ SubSeq(data, b.hend + 1, b.hend + 2) = AB

(* C33 *)

\* C33: a call that found its version line and whose header is cut off by the
\* end of the stream before a blank line, every line of it parsing, returns
\* Missing_Mandatory_Fields: the end of the stream is not reported as
\* Invalid_Field, and the mandatory-field check catches the cut-off header.
C33_CutOffHeaderIsMissing ==
    \A i \in 1..Len(calls) :
        LET o == calls[i].out
            ls == HeaderOf(calls[i])
        IN (/\ o.vstart /= -1
            /\ FirstBlankLine(data, LineEndPos(data, o.vstart)) = -1
            /\ \A j \in 1..Len(ls) : ~RejectedLine(ls[j])) =>
            o.res.kind = "Missing_Mandatory_Fields"

(* C34 *)

\* s with its letters in upper case
UpperCase(s) ==
    [n \in 1..Len(s) |->
        IF \E u \in 1..Len(Lower) : Lower[u] = s[n]
        THEN Upper[CHOOSE u \in 1..Len(Lower) : Lower[u] = s[n]]
        ELSE s[n]]

\* The spellings a caller may use for the name written as n in a header
Spellings(n) == {n, UpperCase(n), transform_tolower(n)}

\* C34: on every returned Record, has(x) is true and field(x) yields the
\* stored value for every header line's name, x being the name as the header
\* spells it, in upper case or in lower case.
C34_LookupInAnyCase ==
    \A i \in 1..Len(calls) :
        LET r == calls[i].out.res
            ls == HeaderOf(calls[i])
        IN r.kind = "Record" =>
            \A j \in 1..Len(ls) : \A x \in Spellings(TrimmedName(ls[j])) :
                /\ has(r.fields, x)
                /\ field(r.fields, x) =
                     [found |-> TRUE,
                      value |-> r.fields[transform_tolower(TrimmedName(ls[j]))]]

(* C35 *)

\* Position p of d is a line boundary: nothing is unread behind it, or the
\* byte just before the first unread byte is a line feed
LineBoundary(d, p) == p = Len(d) \/ (p > 0 /\ d[p] = LF)

\* C35: every call of read_record or read_subsequent_record that returns a
\* Result, a Record or any Error, leaves the stream at a line boundary, after
\* any sequence of calls on a stream that was read from its start.
C35_AtLineBoundary ==
    \A i \in 1..Len(calls) :
        LET o == calls[i].out IN
        o.res.kind \in ErrorKinds \cup {"Record"} => LineBoundary(data, o.in.pos)

\* An error was returned in the middle of the stream, and a later call
\* returned a Record whose body text is longer than its content-length, with
\* bytes still unread behind it.
C35_Witness ==
    \E i, j \in 1..Len(calls) :
        LET a == calls[i].out
            b == calls[j].out
        IN /\ i < j
           /\ a.res.kind \in ErrorKinds
           /\ 0 < a.in.pos /\ a.in.pos < Len(data)
           /\ b.res.kind = "Record"
           /\ b.bend < Len(data) /\ ~isspace(data[b.bend + 1])
           /\ data[b.in.pos] = LF

(* C36 *)

\* C36: every field of a returned Record has the name and the value of a line
\* of the record's own header, the lines between the accepted version line and
\* the header's end; nothing in it comes from a line discarded before the
\* version line, from an earlier call or from an earlier failed record.
C36_FieldsFromOwnHeader ==
    \A i \in 1..Len(calls) :
        LET o == calls[i].out
            ls == HeaderOf(calls[i])
        IN o.res.kind = "Record" =>
            /\ o.res.fields = o.fields
            /\ \A k \in DOMAIN o.res.fields :
                 \E j \in 1..Len(ls) :
                    /\ TrimmedName(ls[j]) = k
                    /\ TrimmedValue(ls[j]) = o.res.fields[k]

\* A call failed on a header that holds content-length 2, the next call
\* discarded the line k:9 behind it and returned a Record from a later header
\* which has another content-length and not the value 9 for k.
C36_Witness ==
    \E i \in 1..Len(calls) :
        LET a == calls[i].out IN
        /\ i < Len(calls)
        /\ a.res.kind = "Missing_Mandatory_Fields"
        /\ Content_Length \in DOMAIN a.fields
        /\ LineAt(data, a.in.pos) = <<"k", ":", "9">>
        /\ calls[i + 1].op = "read_subsequent_record"
        /\ calls[i + 1].out.res.kind = "Record"
        /\ calls[i + 1].out.vstart > a.in.pos
        /\ calls[i + 1].out.res.fields[Content_Length] /= a.fields[Content_Length]
        /\ <<"k">> \in DOMAIN calls[i + 1].out.res.fields
        /\ calls[i + 1].out.res.fields[<<"k">>] /= <<"9">>

(* C37 *)

\* C37: a read_subsequent_record call made on a stream whose fail flag is set
\* and whose end-of-file flag is clear (an input file that could not be
\* opened) returns Invalid_Version, and the read loop of the driver that made
\* the call goes on from it: neither runs for ever.
C37_ReturnsOnFailedStream ==
    \A i \in 1..Len(calls) :
        (calls[i].before.fail /\ ~calls[i].before.eof) =>
            /\ calls[i].out.res.kind = "Invalid_Version"
            /\ pc /= "hung"

(* C38 *)

\* 2^31 - 1 in decimal digits
IntMaxDigits == Decimal(INT_MAX)
\* The plain decimal number str is larger than 2^31 - 1
ExceedsIntMax(str) ==
    \/ Len(str) > Len(IntMaxDigits)
    \/ /\ Len(str) = Len(IntMaxDigits)
       /\ \E n \in 1..Len(str) :
            /\ SubSeq(str, 1, n - 1) = SubSeq(IntMaxDigits, 1, n - 1)
            /\ DigitVal(str[n]) > DigitVal(IntMaxDigits[n])

\* C38: a call whose header declares, as a plain decimal number, a
\* content-length larger than 2^31 - 1 returns no Record and takes no byte as
\* body: the declared length is not wrapped or cut to a smaller number that
\* the stream could satisfy.
C38_NoWrappedLength ==
    \A i \in 1..Len(calls) :
        LET o == calls[i].out IN
        (/\ o.hend /= -1
         /\ valid(o.fields)
         /\ PlainDecimal(o.fields[Content_Length])
         /\ ExceedsIntMax(o.fields[Content_Length])) =>
            /\ o.res.kind /= "Record"
            /\ o.bend = -1
            /\ o.in.pos = o.hend

\* A call parsed a header that declares the content-length 2^32 + 2, which
\* taken modulo 2^32 is the length of the body that follows, and ended
\* without a Record, the body unread.
C38_Witness ==
    \E i \in 1..Len(calls) :
        LET o == calls[i].out IN
        /\ o.hend /= -1
        /\ valid(o.fields)
        /\ o.fields[Content_Length] = <<"4","2","9","4","9","6","7","2","9","8">>
        /\ SubSeq(data, o.hend + 1, o.hend + 3) = AB \o <<LF>>
        /\ o.res.kind /= "Record"
        /\ o.in.pos = o.hend

-----------------------------------------------------------------------------
(* The legacy interface: read_warc_record(in, record) fills a Warc_Record   *)
(* of the caller and returns a bool.                                        *)

\* Warc_Record::valid(): the four fields of a response record, and its type
legacy_valid(fields) ==
    /\ has(fields, Warc_Type)
    /\ has(fields, Warc_Target_Uri)
    /\ has(fields, Warc_Trec_Id)
    /\ has(fields, Content_Length)
    /\ fields[Warc_Type] = Response

\* Warc_Record::content_length(): an invalid_argument of std::stoi is thrown
\* again as a Warc_Format_Error, an out_of_range is not caught.
legacy_content_length(fields) ==
    LET r == stoi(fields[Content_Length])
    IN IF r.exc = "invalid_argument" THEN [exc |-> "Warc_Format_Error", val |-> 0]
       ELSE r

\* read_version(in, version): lines are read until one matches ^WARC/(.+)$
\* after trim (which leaves no white space in it), or std::getline fails.
\* vstart is where the matching line starts.
RECURSIVE legacy_read_version(_, _, _)
legacy_read_version(d, s, ver) ==
    LET g == getline(d, s, <<>>)
        line == trim(g.line)
    IN IF g.in.fail
       THEN [found |-> FALSE, in |-> g.in, version |-> ver, vstart |-> -1]
       ELSE IF Len(line) >= Len(prefix) + 1 /\ SubSeq(line, 1, Len(prefix)) = prefix
            THEN [found |-> TRUE, in |-> g.in,
                  version |-> SubSeq(line, Len(prefix) + 1, Len(line)), vstart |-> s.pos]
            ELSE legacy_read_version(d, g.in, ver)

\* What read_warc_header and read_warc_record hand back: kind is "true" or
\* "false" (the bool), "Exception" or "Diverges"; the stream; the version,
\* fields and content the caller's record then holds; vstart, where the last
\* version line accepted starts; hend and bend as in Outcome; blocks, the
\* number of header blocks read_fields was called on.
LegacyOutcome(kind, s, ver, fields, content, vstart, hend, bend, blocks) ==
    [res |-> [kind |-> kind], in |-> s, version |-> ver, fields |-> fields,
     content |-> content, vstart |-> vstart, hend |-> hend, bend |-> bend,
     blocks |-> blocks]

\* read_warc_header(in, record): while the record is not valid, the next
\* version line is looked for and the header block behind it is read into
\* record.fields_, on top of what the map already holds.  The body of the
\* loop is written in two steps: after read_version (its result v), and after
\* read_fields (its result f).
RECURSIVE read_warc_header(_, _, _, _, _, _)
read_warc_header_fields(d, v, f, blocks) ==
    IF f.hang
    THEN LegacyOutcome("Diverges", f.in, v.version, f.fields, <<>>, v.vstart, -1, -1, blocks + 1)
    ELSE IF f.error
    THEN LegacyOutcome("Exception", f.in, v.version, f.fields, <<>>, v.vstart, -1, -1, blocks + 1)
    ELSE IF f.in.eof
    THEN LegacyOutcome("false", f.in, v.version, f.fields, <<>>, v.vstart, -1, -1, blocks + 1)
    ELSE read_warc_header(d, f.in, v.version, f.fields, v.vstart, blocks + 1)
read_warc_header_version(d, v, ver, fields, vstart, blocks) ==
    IF ~v.found
    THEN LegacyOutcome("false", v.in, ver, fields, <<>>, vstart, -1, -1, blocks)
    ELSE read_warc_header_fields(d, v, read_fields(d, v.in, fields), blocks)
read_warc_header(d, s, ver, fields, vstart, blocks) ==
    IF legacy_valid(fields)
    THEN LegacyOutcome("true", s, ver, fields, <<>>, vstart, s.pos, -1, blocks)
    ELSE read_warc_header_version(d, legacy_read_version(d, s, ver), ver, fields, vstart, blocks)

\* read_warc_record(in, record): the record is cleared, the header read (its
\* outcome h), then the body (r: what in.read got) and the two line ends as in
\* read_record.
read_warc_record_body(d, h, length, r) ==
    IF length > 0 /\ r.in.fail
    THEN [h EXCEPT !.res.kind = "false", !.in = r.in, !.content = resized(r.got, length)]
    ELSE [h EXCEPT !.in = ignore(d, ignore(d, r.in)),
                   !.content = IF length > 0 THEN resized(r.got, length) ELSE <<>>,
                   !.bend = r.in.pos]
read_warc_record_length(d, h, cl) ==
    IF cl.exc /= "none" \/ cl.val < 0 THEN [h EXCEPT !.res.kind = "Exception"]
    ELSE read_warc_record_body(d, h, cl.val,
             IF cl.val > 0 THEN read(d, h.in, cl.val) ELSE [in |-> h.in, got |-> <<>>])
read_warc_record_header(d, h) ==
    IF h.res.kind /= "true" THEN h
    ELSE read_warc_record_length(d, h, legacy_content_length(h.fields))
read_warc_record(d, s) ==
    read_warc_record_header(d, read_warc_header(d, s, <<>>, EmptyFields, -1, 0))

\* A record object of the caller and an istringstream over the data
InitLegacy ==
    /\ segs \in SegLists
    /\ data = Text(segs)
    /\ in = Fresh
    /\ calls = <<>>
    /\ version = <<>>
    /\ os = <<>> /\ clog = <<>> /\ pc = "legacy"

ReadWarcRecord == CanCall /\ Call("read_warc_record", read_warc_record(data, in))

NextLegacy == ReadWarcRecord

SpecLegacy == InitLegacy /\ [][NextLegacy]_vars

(* C39 *)

\* C39: when read_warc_record returns true, every field the record holds has
\* the name and the value of a line of one header block, the block behind the
\* last version line the call accepted, and the content is the bytes that
\* follow that block; no field of a header block the call read and passed
\* over before it is in the record.
C39_FieldsFromOneHeader ==
    \A i \in 1..Len(calls) :
        LET o == calls[i].out
            ls == HeaderLines(data, LineEndPos(data, o.vstart))
        IN o.res.kind = "true" =>
            /\ o.hend = HeaderEnd(data, LineEndPos(data, o.vstart))
            /\ o.content = SubSeq(data, o.hend + 1, o.hend + Len(o.content))
            /\ \A k \in DOMAIN o.fields :
                 \E j \in 1..Len(ls) :
                    /\ TrimmedName(ls[j]) = k
                    /\ TrimmedValue(ls[j]) = o.fields[k]

=============================================================================
